---- MODULE Spec2Model ----
(***************************************************************************)
(* A model of dupe (src/src/main.rs): the duplicate-file finder.           *)
(*                                                                         *)
(* main collects the regular files under the root, find_duplicate_files    *)
(* narrows them stage by stage (name, size, 1024-byte prefix hash,         *)
(* 4096-byte prefix hash, full-content hash), each stage re-grouping       *)
(* every surviving group with find_duplicates_by, and main folds the final *)
(* groups into a BTreeMap keyed by total size and prints it in reverse.    *)
(*                                                                         *)
(* A byte string is the record [len, ones]: len bytes, byte p (1-based)    *)
(* being 1 when p \in ones and 0 otherwise.  SHA-1 is taken as             *)
(* collision-free: Sha1 is an injective tag of the bytes it is given.      *)
(***************************************************************************)
EXTENDS Integers, Sequences, FiniteSets, TLC

VARIABLES
    fs,           \* the directory tree in walk order: a sequence of entries
    algorithm,    \* args.algorithm
    min_size,     \* main's min_size, in bytes
    pc,           \* position in main / find_duplicate_files / sha1_read
    files,        \* main's files: the candidates, as indices into fs
    dupes,        \* find_duplicate_files' dupes: a sequence of groups
    log,          \* the "Found N duplicate groups by ..." lines printed
    dupe_map,     \* main's dupe_map: total size |-> group
    output,       \* the report blocks printed, in order
    total_size,   \* main's total_size
    total_count,  \* main's total_count
    bytes_limit,  \* sha1_read's bytes_limit argument
    digests       \* sha1_read's results, one per entry of fs

vars == <<fs, algorithm, min_size, pc, files, dupes, log, dupe_map, output,
          total_size, total_count, bytes_limit, digests>>

----------------------------------------------------------------------------
(* Bounds: the number of directory entries of each specification.          *)

NumFiles == 4
NumFilesCollect == 2
NumFilesContent == 5
NumFilesFull == 4
NumFilesFail == 3
NumFilesHash == 2

----------------------------------------------------------------------------
(* Values.                                                                 *)

None == <<>>
Some(v) == <<v>>

Range(s) == {s[k] : k \in DOMAIN s}

Min(a, b) == IF a < b THEN a ELSE b

Bytes(n, ones) == [len |-> n, ones |-> ones]

\* vec![0; n]
Zeros(n) == Bytes(n, {})

\* The first min(n, length) bytes of a byte string.
Prefix(bytes, n) == Bytes(Min(n, bytes.len), {p \in bytes.ones : p <= n})

\* Read::read into a buffer: the bytes read overwrite the start of the
\* buffer, the rest of the buffer is left as it was (zeros).
ReadInto(buffer, bytes) ==
    LET got == Prefix(bytes, buffer.len)
    IN  Bytes(buffer.len, got.ones \cup {p \in buffer.ones : p > got.len})

\* Sha1::new_with_prefix(data).finalize() / hasher.finalize()
Sha1(bytes) == <<"sha1", bytes.len, bytes.ones>>

Algorithms == {"Name", "Size", "NameAndSize", "FuzzyContent", "FullContent"}

PrefixLimit1 == 1024
PrefixLimit2 == 4096

----------------------------------------------------------------------------
(* Content Signature Extractor.                                            *)

\* e.metadata().map(|m| m.size()).ok()
metadata_size(e) == IF e.meta THEN Some(e.content.len) ELSE None

\* A sha1_read whose unlimited read stops after the second prefix.
sha1_read_truncating(e, limit) ==
    IF ~e.open THEN None
    ELSE LET n == IF limit > 0 THEN limit ELSE PrefixLimit2
         IN  Some(Sha1(IF e.read THEN ReadInto(Zeros(n), e.content) ELSE Zeros(n)))

\* sha1_read(path, bytes_limit).  A failing File::open gives None.  With a
\* limit, one read fills the start of a zeroed buffer of bytes_limit bytes,
\* its result (the count, or the error) is discarded, and the whole buffer
\* is hashed.  Without a limit the file is hashed until fill_buf gives no
\* bytes, a read error counting as no bytes.
sha1_read(e, limit) ==
    IF ~e.open THEN None
    ELSE IF limit > 0
         THEN Some(Sha1(IF e.read THEN ReadInto(Zeros(limit), e.content)
                                  ELSE Zeros(limit)))
         ELSE Some(Sha1(IF e.read THEN e.content ELSE Zeros(0)))

\* The closures handed to find_duplicates_by, as functions of the index.
ByNameWrong == [i \in DOMAIN fs |-> Some(fs[i].content.len)]

ByName == [i \in DOMAIN fs |-> Some(fs[i].name)]

BySizeWrong == [i \in DOMAIN fs |-> Some(0)]

BySize == [i \in DOMAIN fs |-> metadata_size(fs[i])]

ByHash(limit) == [i \in DOMAIN fs |-> sha1_read(fs[i], limit)]

----------------------------------------------------------------------------
(* Grouping Engine.                                                        *)

\* The fold of find_duplicates_by: key |-> the entries with that key, in
\* input order; entries without a key are in no vector.
KeyMap(fls, f) ==
    LET keys == {f[i][1] : i \in {j \in Range(fls) : f[j] # None}}
    IN  [k \in keys |-> LET Has(i) == f[i] = Some(k) IN SelectSeq(fls, Has)]

\* The orders in which a HashMap may yield a set of values.
Orderings(S) ==
    {s \in [1..Cardinality(S) -> S] : \A a, b \in DOMAIN s : a # b => s[a] # s[b]}

KeepsSingletons(g) == Len(g) > 0

\* .filter(|g| g.len() > 1)
IsDuplicateGroup(g) == Len(g) > 1

\* The groups find_duplicates_by yields, as a set.
Classes(fls, f) ==
    LET map == KeyMap(fls, f)
    IN  {g \in {map[k] : k \in DOMAIN map} : IsDuplicateGroup(g)}

\* find_duplicates_by(files, f): every sequence the returned iterator may
\* be, the HashMap's iteration order being arbitrary.
find_duplicates_by(fls, f) == Orderings(Classes(fls, f))

----------------------------------------------------------------------------
(* Progressive Duplicate Pipeline.                                         *)

RECURSIVE Concat(_)
Concat(gs) == IF gs = <<>> THEN <<>> ELSE Head(gs) \o Concat(Tail(gs))

RECURSIVE FlatMapEach(_, _)
FlatMapEach(gs, f) ==
    IF gs = <<>> THEN {<<>>}
    ELSE {a \o b : a \in find_duplicates_by(Head(gs), f), b \in FlatMapEach(Tail(gs), f)}

\* A stage that re-groups all surviving candidates together.
StageMerging(gs, f) == find_duplicates_by(Concat(gs), f)

\* dupes.map(|g| find_duplicates_by(g, f)).flatten().collect(): every
\* value the collected vector may have.
Stage(gs, f) == FlatMapEach(gs, f)

RunStage(here, next, enabled, f, criterion) ==
    /\ pc = here
    /\ pc' = next
    /\ IF enabled
       THEN /\ dupes' \in Stage(dupes, f)
            /\ log' = Append(log, <<criterion, Len(dupes')>>)
       ELSE UNCHANGED <<dupes, log>>
    /\ UNCHANGED <<fs, algorithm, min_size, files, dupe_map, output,
                   total_size, total_count, bytes_limit, digests>>

StageName ==
    RunStage("name", "size", algorithm \in {"Name", "NameAndSize"}, ByName, "name")

StageSize ==
    RunStage("size", "hash1024",
             algorithm \in {"Size", "NameAndSize", "FuzzyContent", "FullContent"},
             BySize, "size")

StageHash1024 ==
    RunStage("hash1024", "hash4096", algorithm \in {"FuzzyContent", "FullContent"},
             ByHash(PrefixLimit1), "first 1024 bytes")

StageHash4096 ==
    RunStage("hash4096", "full", algorithm \in {"FuzzyContent", "FullContent"},
             ByHash(PrefixLimit2), "first 4096 bytes")

StageFull ==
    RunStage("full", "aggregate", algorithm \in {"FullContent"},
             ByHash(0), "full content bytes")

----------------------------------------------------------------------------
(* main: collecting the candidates.                                        *)

AtLeastMinSize(size, min) == size >= min

\* m.size() > min_size
ExceedsMinSize(size, min) == size > min

\* e.file_type().is_file() && e.metadata().is_ok_and(|m| m.size() > min_size)
IsCandidate(e, min) ==
    /\ e.is_file
    /\ metadata_size(e) # None
    /\ ExceedsMinSize(metadata_size(e)[1], min)

Collect ==
    /\ pc = "collect"
    /\ LET Keep(i) == IsCandidate(fs[i], min_size)
       IN  files' = SelectSeq([i \in DOMAIN fs |-> i], Keep)
    /\ dupes' = <<files'>>
    /\ pc' = "name"
    /\ UNCHANGED <<fs, algorithm, min_size, log, dupe_map, output,
                   total_size, total_count, bytes_limit, digests>>

----------------------------------------------------------------------------
(* Result Aggregator.                                                      *)

RECURSIVE group_size(_)
\* group.iter().filter_map(|e| e.metadata().map(|m| m.size()).ok()).sum()
group_size(g) ==
    IF g = <<>> THEN 0
    ELSE LET m == metadata_size(fs[Head(g)])
         IN  (IF m = None THEN 0 ELSE m[1]) + group_size(Tail(g))

Overwrite(map, size, g) ==
    IF size \in DOMAIN map THEN [map EXCEPT ![size] = g] ELSE map @@ (size :> g)

\* map.entry(size).or_insert(group)
OrInsert(map, size, g) ==
    IF size \in DOMAIN map THEN map ELSE map @@ (size :> g)

RECURSIVE FoldGroups(_, _)
FoldGroups(map, gs) ==
    IF gs = <<>> THEN map
    ELSE FoldGroups(OrInsert(map, group_size(Head(gs)), Head(gs)), Tail(gs))

Aggregate ==
    /\ pc = "aggregate"
    /\ dupe_map' = FoldGroups(<<>>, dupes)
    /\ pc' = "report"
    /\ UNCHANGED <<fs, algorithm, min_size, files, dupes, log, output,
                   total_size, total_count, bytes_limit, digests>>

\* Size::new(size): the unit the size is printed in.
SizeUnit(size) ==
    IF size < 1000000 THEN "Kb" ELSE IF size < 1000000000 THEN "Mb" ELSE "Gb"

RECURSIVE Descending(_)
\* dupe_map.into_iter().rev(): the keys from largest to smallest.
Descending(S) ==
    IF S = {} THEN <<>>
    ELSE LET m == CHOOSE x \in S : \A y \in S : y <= x
         IN  <<m>> \o Descending(S \ {m})

RECURSIVE SumSeq(_)
SumSeq(s) == IF s = <<>> THEN 0 ELSE Head(s) + SumSeq(Tail(s))

Report ==
    /\ pc = "report"
    /\ LET sizes == Descending(DOMAIN dupe_map)
       IN  /\ output' = [k \in DOMAIN sizes |->
                           [size |-> sizes[k], unit |-> SizeUnit(sizes[k]),
                            paths |-> dupe_map[sizes[k]]]]
           /\ total_size' = SumSeq(sizes)
    /\ total_count' = Cardinality(DOMAIN dupe_map)
    /\ pc' = "done"
    /\ UNCHANGED <<fs, algorithm, min_size, files, dupes, log, dupe_map,
                   bytes_limit, digests>>

----------------------------------------------------------------------------
(* sha1_read on its own.                                                   *)

HashLimits == {0, PrefixLimit1, PrefixLimit2}

HashEntries ==
    /\ pc = "sha1_read"
    /\ \E limit \in HashLimits :
          /\ bytes_limit' = limit
          /\ digests' = [i \in DOMAIN fs |-> sha1_read(fs[i], limit)]
    /\ pc' = "hashed"
    /\ UNCHANGED <<fs, algorithm, min_size, files, dupes, log, dupe_map, output,
                   total_size, total_count>>

----------------------------------------------------------------------------
(* Inputs.                                                                 *)

Empty == Zeros(0)
OneZero == Zeros(1)
OneOne == Bytes(1, {1})
TwoZeros == Zeros(2)
Long == Zeros(PrefixLimit2 + 1)
LongDiffersAt(p) == Bytes(PrefixLimit2 + 1, {p})

Entries(names, kinds, metas, contents, access) ==
    {[name |-> n, is_file |-> k, meta |-> m, content |-> c,
      open |-> a[1], read |-> a[2]] :
        n \in names, k \in kinds, m \in metas, c \in contents, a \in access}

Readable == {<<TRUE, TRUE>>}
AnyAccess == {<<TRUE, TRUE>>, <<FALSE, TRUE>>, <<TRUE, FALSE>>}

InitWith(n, entries, algorithms, thresholds, start) ==
    /\ fs \in [1..n -> entries]
    /\ algorithm \in algorithms
    /\ min_size \in thresholds
    /\ pc = start
    /\ files = <<>>
    /\ dupes = <<>>
    /\ log = <<>>
    /\ dupe_map = <<>>
    /\ output = <<>>
    /\ total_size = 0
    /\ total_count = 0
    /\ bytes_limit = 0
    /\ digests = <<>>

\* Names and sizes vary, under every algorithm.
Init ==
    InitWith(NumFiles,
             Entries({"x", "y"}, {TRUE}, {TRUE}, {OneZero, OneOne, TwoZeros}, Readable),
             Algorithms, {0}, "collect")

\* Entry kinds, metadata and sizes vary around the threshold.
InitCollect ==
    InitWith(NumFilesCollect,
             Entries({"x"}, BOOLEAN, BOOLEAN, {Empty, OneZero, TwoZeros}, Readable),
             Algorithms, {0, 1}, "collect")

ContentVariety ==
    {Long, LongDiffersAt(1), LongDiffersAt(PrefixLimit1 + 1),
     LongDiffersAt(PrefixLimit2 + 1), OneZero}

\* Contents vary around the prefix limits, under the content algorithms.
InitContent ==
    InitWith(NumFilesContent,
             Entries({"x"}, {TRUE}, {TRUE}, ContentVariety, Readable),
             {"FuzzyContent", "FullContent"}, {0}, "collect")

\* Names and contents vary, under full-content mode.
InitFull ==
    InitWith(NumFilesFull,
             Entries({"x", "y"}, {TRUE}, {TRUE}, ContentVariety, Readable),
             {"FullContent"}, {0}, "collect")

\* Files that cannot be opened or read, under the content algorithms.
InitFail ==
    InitWith(NumFilesFail,
             Entries({"x"}, {TRUE}, {TRUE}, {Long, LongDiffersAt(1)}, AnyAccess),
             {"FuzzyContent", "FullContent"}, {0}, "collect")

\* The inputs of sha1_read.
InitHash ==
    InitWith(NumFilesHash,
             Entries({"x"}, {TRUE}, {TRUE},
                     {Empty, OneZero, OneOne, TwoZeros, Bytes(2, {1}), Long,
                      LongDiffersAt(PrefixLimit1 + 1), LongDiffersAt(PrefixLimit2 + 1)},
                     AnyAccess),
             {"FullContent"}, {0}, "sha1_read")

Next ==
    \/ Collect
    \/ StageName
    \/ StageSize
    \/ StageHash1024
    \/ StageHash4096
    \/ StageFull
    \/ Aggregate
    \/ Report

NextHash == HashEntries

Spec == Init /\ [][Next]_vars
SpecCollect == InitCollect /\ [][Next]_vars
SpecContent == InitContent /\ [][Next]_vars
SpecFull == InitFull /\ [][Next]_vars
SpecFail == InitFail /\ [][Next]_vars
SpecHash == InitHash /\ [][NextHash]_vars

----------------------------------------------------------------------------
(* Vocabulary of the properties.                                           *)

Candidates == Range(files)

GroupSets == {Range(dupes[k]) : k \in DOMAIN dupes}

InAGroup(i) == \E k \in DOMAIN dupes : i \in Range(dupes[k])

SameGroup(i, j) == \E k \in DOMAIN dupes : {i, j} \subseteq Range(dupes[k])

PipelineDone == pc \in {"aggregate", "report", "done"}

HashAlgorithm == algorithm \in {"FuzzyContent", "FullContent"}

SizeOf(i) == fs[i].content.len

\* The first group of a total size, in the order the pipeline yielded them.
FirstWithTotal(size) ==
    dupes[CHOOSE k \in DOMAIN dupes :
            /\ group_size(dupes[k]) = size
            /\ \A m \in DOMAIN dupes : group_size(dupes[m]) = size => k <= m]

\* A candidate whose file cannot be opened, or cannot be read.
Failing(i) == ~fs[i].open \/ ~fs[i].read

WithoutFailing(g) == LET Ok(i) == ~Failing(i) IN SelectSeq(g, Ok)

\* Every group of out lies in exactly one group of in, the groups of out are
\* pairwise disjoint, and two members of one came from one group of in.
Refines(out, in) ==
    /\ \A a \in DOMAIN out :
          Cardinality({b \in DOMAIN in : Range(out[a]) \subseteq Range(in[b])}) = 1
    /\ \A a, b \in DOMAIN out : a # b => Range(out[a]) \cap Range(out[b]) = {}
    /\ \A a \in DOMAIN out : \A i, j \in Range(out[a]) :
          \E b \in DOMAIN in : {i, j} \subseteq Range(in[b])

\* Group by size, then each group by name: the groups, as sets.
SizeThenName ==
    UNION {{Range(g) : g \in Classes(h, ByName)} : h \in Classes(files, BySize)}

\* The classes of candidates of one name and one size, with 2 members or more.
NameAndSizeClasses ==
    {c \in {{j \in Candidates : fs[j].name = fs[i].name /\ SizeOf(j) = SizeOf(i)} :
               i \in Candidates} : Cardinality(c) >= 2}

----------------------------------------------------------------------------
(* C1: in full-content mode, over readable files, two candidates share a   *)
(* final group exactly when their whole byte sequences are identical.      *)
C1_FullContentGroupsIffIdentical ==
    (PipelineDone /\ algorithm = "FullContent") =>
        \A i, j \in Candidates :
            i # j => (SameGroup(i, j) <=> fs[i].content = fs[j].content)

\* Three identical files, not all of one name, share the final group while
\* a fourth of the same size, differing only beyond byte 4096, is in none.
C1_Witness ==
    /\ pc = "done"
    /\ algorithm = "FullContent"
    /\ \E i, j, m, k \in Candidates :
          /\ Cardinality({i, j, m}) = 3
          /\ fs[i].content = fs[j].content
          /\ fs[i].content = fs[m].content
          /\ fs[i].name # fs[j].name
          /\ SameGroup(i, j)
          /\ SameGroup(i, m)
          /\ fs[k].content # fs[i].content
          /\ Prefix(fs[k].content, PrefixLimit2) = Prefix(fs[i].content, PrefixLimit2)
          /\ SizeOf(k) = SizeOf(i)
          /\ ~InAGroup(k)

----------------------------------------------------------------------------
(* C2: in name-only mode two candidates share an output group exactly when *)
(* their base names are equal, whatever their content or size; a candidate *)
(* whose name no other candidate has is in no group.                       *)
C2_NameModeGroupsIffSameName ==
    (algorithm = "Name" /\ pc \notin {"collect", "name"}) =>
        /\ \A i, j \in Candidates :
              i # j => (SameGroup(i, j) <=> fs[i].name = fs[j].name)
        /\ \A i \in Candidates :
              (\A j \in Candidates \ {i} : fs[j].name # fs[i].name) => ~InAGroup(i)

\* Two files of one name but different sizes are grouped; a file with a
\* name of its own, and the content of one of them, is left out.
C2_Witness ==
    /\ pc = "done"
    /\ algorithm = "Name"
    /\ \E i, j, k \in Candidates :
          /\ i # j
          /\ fs[i].name = fs[j].name
          /\ SizeOf(i) # SizeOf(j)
          /\ SameGroup(i, j)
          /\ fs[k].content = fs[i].content
          /\ \A m \in Candidates \ {k} : fs[m].name # fs[k].name
          /\ ~InAGroup(k)

----------------------------------------------------------------------------
(* C3: once a stage has run, every group has at least 2 members, under     *)
(* every algorithm.                                                        *)
C3_GroupsHaveTwoMembers ==
    log # <<>> => \A k \in DOMAIN dupes : Len(dupes[k]) >= 2

\* The hash stages split two files of one size into singletons, which are
\* dropped, while another group survives.
C3_Witness ==
    /\ pc = "aggregate"
    /\ algorithm = "FullContent"
    /\ dupes # <<>>
    /\ \E i, j \in Candidates :
          /\ i # j
          /\ SizeOf(i) = SizeOf(j)
          /\ fs[i].content # fs[j].content
          /\ ~InAGroup(i)
          /\ ~InAGroup(j)

----------------------------------------------------------------------------
(* C4, as stated: among the entries whose metadata can be read, the        *)
(* candidates are exactly the regular files of size >= the threshold.      *)
C4_AsStated ==
    pc # "collect" =>
        \A i \in DOMAIN fs :
            fs[i].meta =>
                (i \in Candidates <=> (fs[i].is_file /\ SizeOf(i) >= min_size))

(* C4, amended: the candidates are exactly the regular files whose         *)
(* metadata can be read and whose size is strictly greater than the        *)
(* threshold; no other entry is ever a member of a group.                  *)
C4_CandidatesExceedThreshold ==
    pc # "collect" =>
        /\ Candidates = {i \in DOMAIN fs :
                            fs[i].is_file /\ fs[i].meta /\ SizeOf(i) > min_size}
        /\ \A i \in DOMAIN fs :
              (~fs[i].is_file \/ ~fs[i].meta \/ SizeOf(i) <= min_size) => ~InAGroup(i)
        /\ \A k \in DOMAIN files : \A m \in DOMAIN files : k < m => files[k] < files[m]

\* A regular file whose size equals the threshold is no candidate, and the
\* larger file of the same name is left without a group.
C4_Witness ==
    /\ pc = "done"
    /\ algorithm = "Name"
    /\ \E i, j \in DOMAIN fs :
          /\ fs[i].is_file
          /\ fs[i].meta
          /\ SizeOf(i) = min_size
          /\ i \notin Candidates
          /\ j \in Candidates
          /\ fs[j].name = fs[i].name
          /\ ~InAGroup(j)

----------------------------------------------------------------------------
(* C5: the report holds one group per total size, the first of that total  *)
(* in the order the pipeline yielded its groups, in strictly descending    *)
(* order of total size.                                                    *)
C5_ReportFirstPerTotalDescending ==
    pc = "done" =>
        /\ \A k \in DOMAIN output :
              k < Len(output) => output[k].size > output[k + 1].size
        /\ {output[k].size : k \in DOMAIN output}
              = {group_size(dupes[k]) : k \in DOMAIN dupes}
        /\ \A k \in DOMAIN output : output[k].paths = FirstWithTotal(output[k].size)
        /\ total_count = Len(output)

\* Two final groups have the same total; the report holds the one yielded
\* first and not the other.
C5_Witness ==
    /\ pc = "done"
    /\ \E a, b \in DOMAIN dupes :
          /\ a < b
          /\ group_size(dupes[a]) = group_size(dupes[b])
          /\ \E k \in DOMAIN output : output[k].paths = dupes[a]
          /\ \A k \in DOMAIN output : output[k].paths # dupes[b]

----------------------------------------------------------------------------
(* C6, as stated: a candidate that cannot be opened or read at a hash      *)
(* stage is in no group of that stage or a later one, and the 1024-byte    *)
(* stage groups the others as it would without the failing candidates.     *)
C6_AsStated ==
    (HashAlgorithm /\ pc \in {"hash4096", "full", "aggregate", "report", "done"}) =>
        /\ \A i \in Candidates : Failing(i) => ~InAGroup(i)
        /\ pc = "hash4096" =>
              GroupSets =
                  UNION {{Range(g) : g \in Classes(WithoutFailing(h), ByHash(PrefixLimit1))} :
                            h \in Classes(files, BySize)}

----------------------------------------------------------------------------
(* C7: each prefix-hash stage only narrows: every output group lies in     *)
(* exactly one input group, output groups are pairwise disjoint, and two   *)
(* members of an output group were members of one input group.             *)
C7_PrefixStagesNarrow ==
    [][(HashAlgorithm /\ pc \in {"hash1024", "hash4096"}) => Refines(dupes', dupes)]_vars

\* The 1024-byte stage has split a file off a surviving group of its size,
\* and a second group of another size survives beside it.
C7_Witness ==
    /\ pc = "hash4096"
    /\ HashAlgorithm
    /\ \E i, j, k \in Candidates :
          /\ SizeOf(i) = SizeOf(j)
          /\ InAGroup(j)
          /\ ~InAGroup(i)
          /\ SizeOf(k) # SizeOf(j)
          /\ InAGroup(k)

----------------------------------------------------------------------------
(* C8, as stated: with a limit above 0 the key of an openable, readable    *)
(* file is the digest of its first min(limit, length) bytes and nothing    *)
(* else, so two keys are equal exactly when those bytes are.               *)
C8_AsStated ==
    (pc = "hashed" /\ bytes_limit > 0) =>
        \A i, j \in DOMAIN fs :
            (~Failing(i) /\ ~Failing(j)) =>
                /\ digests[i] = Some(Sha1(Prefix(fs[i].content, bytes_limit)))
                /\ (digests[i] = digests[j]) <=>
                      (Prefix(fs[i].content, bytes_limit) = Prefix(fs[j].content, bytes_limit))

----------------------------------------------------------------------------
(* C9: name-then-size yields the groups of size-then-name: the classes of  *)
(* candidates with the same name and the same size that have at least 2    *)
(* members.                                                                *)
C9_NameAndSizeCommute ==
    (algorithm = "NameAndSize" /\ pc \notin {"collect", "name", "size"}) =>
        /\ GroupSets = SizeThenName
        /\ GroupSets = NameAndSizeClasses
        /\ Len(dupes) = Cardinality(GroupSets)

\* The size stage has separated two files of one name, one of which stays
\* grouped with a third file of its name and size.
C9_Witness ==
    /\ pc = "done"
    /\ algorithm = "NameAndSize"
    /\ \E i, j, k \in Candidates :
          /\ fs[i].name = fs[j].name
          /\ SizeOf(i) # SizeOf(j)
          /\ k # i
          /\ SameGroup(i, k)
          /\ ~SameGroup(i, j)

----------------------------------------------------------------------------
(* C10, as stated: the groups in the final report do not depend on the     *)
(* order in which the grouping engine yields the final groups: folding     *)
(* them in any other order reports the same groups.                        *)
C10_AsStated ==
    pc = "done" =>
        \A p \in Orderings(Range(dupes)) :
            LET map == FoldGroups(<<>>, p)
            IN  {map[s] : s \in DOMAIN map} = {output[k].paths : k \in DOMAIN output}

====
